---- MODULE Spec2Model ----
(***************************************************************************)
(* reconchess/play.py: the turn engine (play_turn), the whole-game drivers *)
(* and the multiprocessing mediator (_respond_to_requests) that answers    *)
(* the two player processes over per-color queues.                         *)
(*                                                                         *)
(* LocalGame and the player-side stub MultiprocessingLocalGame belong to   *)
(* reconchess/game.py; their behaviour here follows the design document   *)
(* (sections 3, 4.1, 4.3 and 5).                                           *)
(***************************************************************************)
EXTENDS Integers, Sequences, FiniteSets, TLC

(* ---------------------------------------------------------------- bounds *)
\* seconds each player starts with (seconds_per_player, scaled down)
SecondsPerPlayer == 1
\* most half-move records (sense / move) the history may hold when the
\* player processes send any command at any time
MaxHistory == 1
\* most moves of a game driven through play_turn
MaxTurns == 2

(* ------------------------------------------------- values of the program *)
\* chess.WHITE is True and chess.BLACK is False; chess.COLORS = [WHITE, BLACK]
WHITE == TRUE
BLACK == FALSE
COLORS == <<WHITE, BLACK>>
Colors == {WHITE, BLACK}

\* Optional values: None is the empty tuple, a present value x is <<x>>
None == <<>>
Some(x) == <<x>>

\* the Rule Oracle is external: one sense target, three kinds of move
Squares == {"e5"}
Moves == {"quiet", "capture", "king_capture"}

WhiteName == "WhiteBot"
BlackName == "BlackBot"

\* a variant of player_names: the white name is stored first
player_names_white_first == <<WhiteName, BlackName>>
\* game.player_names = (black_name, white_name), a tuple indexed from 0
player_names == <<BlackName, WhiteName>>
\* Python's tuple[bool]: False indexes element 0, True element 1
TupleAt(t, b) == t[(IF b THEN 1 ELSE 0) + 1]

\* the sixteen commands of the dispatch table
Commands == {"color", "starting_board", "opponent_name", "sense_actions",
             "move_actions", "seconds_left", "ready", "is_my_turn",
             "opponent_move_results", "sense", "move", "end_turn",
             "game_status", "winner_color", "win_reason", "game_history"}
GatedCommands == {"sense_actions", "move_actions", "opponent_move_results",
                  "sense", "move"}

\* a request is the tuple (command, arguments); arg holds the one argument
Request(cmd, arg) == [cmd |-> cmd, arg |-> arg]
Requests == {Request(c, None) : c \in Commands \ {"sense", "move"}}
            \cup {Request("sense", Some(s)) : s \in Squares}
            \cup {Request("move", Some(m)) : m \in Moves}

\* a response is the one-key dict {tag: val}; the bare None is NoneMsg
Msg(tag, val) == [tag |-> tag, val |-> val]
NoneMsg == [tag |-> "None", val |-> None]

(* ------------------------------------ the Game State Machine (LocalGame) *)
StartingBoard == [kings |-> Colors, moved |-> 0]

NewGame ==
  [turn |-> WHITE,
   board |-> StartingBoard,
   seconds_left_by_color |-> [c \in Colors |-> SecondsPerPlayer],
   elapsed |-> 0,
   move_results |-> None,
   history |-> <<>>,
   result |-> None,
   started |-> FALSE]

\* start: the clock of the color to move starts running
start(g) == [g EXCEPT !.started = TRUE]

is_over(g) == g.result # None

\* the live clock of the color to move
get_seconds_left(g) == g.seconds_left_by_color[g.turn] - g.elapsed

get_winner_color(g) == IF is_over(g) THEN Some(g.result[1].winner) ELSE None
get_win_reason(g) == IF is_over(g) THEN Some(g.result[1].reason) ELSE None
get_game_history(g) == g.history

sense_actions(g) == Squares
move_actions(g) == Moves
opponent_move_results(g) == g.move_results

\* sense: a pure observation of the true board, recorded in the history;
\* rejected as a no-op once the game is over
sense(g, square) ==
  IF is_over(g)
  THEN [game |-> g, value |-> <<>>]
  ELSE [game |-> [g EXCEPT !.history =
                     Append(@, [kind |-> "sense", color |-> g.turn,
                                what |-> square])],
        value |-> <<square, g.board.kings>>]

CaptureSquare(m) == IF m \in {"capture", "king_capture"} THEN Some("e5") ELSE None

\* move: applied through the Rule Oracle; a king capture ends the game;
\* rejected as a no-op once the game is over
move(g, requested_move) ==
  IF is_over(g)
  THEN [game |-> g, value |-> <<requested_move, None, None>>]
  ELSE LET kingTaken == requested_move = "king_capture"
           g1 == [g EXCEPT
                    !.board = [kings |-> IF kingTaken THEN @.kings \ {~g.turn}
                                         ELSE @.kings,
                               moved |-> @.moved + 1],
                    !.move_results = CaptureSquare(requested_move),
                    !.history = Append(@, [kind |-> "move", color |-> g.turn,
                                           what |-> requested_move]),
                    !.result = IF kingTaken
                               THEN Some([winner |-> g.turn,
                                          reason |-> "KING_CAPTURE"])
                               ELSE @]
       IN [game |-> g1,
           value |-> <<requested_move, Some(requested_move),
                       CaptureSquare(requested_move)>>]

\* end_turn: stop the active clock, flip the turn, start the other clock;
\* a no-op once the game is over
end_turn(g) ==
  IF is_over(g)
  THEN g
  ELSE [g EXCEPT !.seconds_left_by_color[g.turn] = @ - g.elapsed,
                 !.turn = ~g.turn,
                 !.elapsed = 0]

\* end: the clock of the color to move is stopped for good
end(g) ==
  [g EXCEPT !.seconds_left_by_color[g.turn] = @ - g.elapsed, !.elapsed = 0]

\* one second passes on the active clock; reaching zero is a timeout
tick(g) ==
  LET g1 == [g EXCEPT !.elapsed = @ + 1]
  IN IF get_seconds_left(g1) = 0
     THEN [g1 EXCEPT !.result = Some([winner |-> ~g.turn, reason |-> "TIMEOUT"])]
     ELSE g1

(* --------------------------------------------- the mediator's dispatch *)
\* responses[request_command](): the game after the call and the message
\* put on the requesting color's 'to player' queue
dispatch(g, color, request, on_own_turn) ==
  LET cmd == request.cmd
      keep(m) == [game |-> g, response |-> m]
  IN CASE cmd = "color" -> keep(Msg("color", Some(color)))
       [] cmd = "starting_board" -> keep(Msg("board", Some(StartingBoard)))
       [] cmd = "opponent_name" ->
            keep(Msg("opponent_name", Some(TupleAt(player_names, ~color))))
       [] cmd = "sense_actions" ->
            keep(Msg("sense_actions",
                     IF on_own_turn THEN Some(sense_actions(g)) ELSE None))
       [] cmd = "move_actions" ->
            keep(Msg("move_actions",
                     IF on_own_turn THEN Some(move_actions(g)) ELSE None))
       [] cmd = "seconds_left" ->
            keep(Msg("seconds_left",
                     Some(IF on_own_turn THEN get_seconds_left(g)
                          ELSE g.seconds_left_by_color[color])))
       [] cmd = "ready" -> keep(Msg("ready", Some("ready")))
       [] cmd = "is_my_turn" ->
            keep(Msg("is_my_turn", Some(on_own_turn \/ is_over(g))))
       [] cmd = "opponent_move_results" ->
            keep(Msg("opponent_move_results",
                     IF on_own_turn THEN Some(opponent_move_results(g)) ELSE None))
       [] cmd = "sense" ->
            IF on_own_turn
            THEN LET r == sense(g, request.arg[1])
                 IN [game |-> r.game, response |-> Msg("sense_result", Some(r.value))]
            ELSE keep(Msg("sense_result", None))
       [] cmd = "move" ->
            IF on_own_turn
            THEN LET r == move(g, request.arg[1])
                 IN [game |-> r.game, response |-> Msg("move_result", Some(r.value))]
            ELSE keep(Msg("move_result", None))
       [] cmd = "end_turn" ->
            IF on_own_turn
            THEN [game |-> end_turn(g), response |-> Msg("end_turn", Some("done"))]
            ELSE keep(NoneMsg)
       [] cmd = "game_status" ->
            keep(Msg("game_status",
                     Some([is_over |-> is_over(g), is_my_turn |-> on_own_turn])))
       [] cmd = "winner_color" -> keep(Msg("winner_color", get_winner_color(g)))
       [] cmd = "win_reason" -> keep(Msg("win_reason", get_win_reason(g)))
       [] cmd = "game_history" -> keep(Msg("game_history", Some(get_game_history(g))))

\* variants of respond with a slip in the gating
respond_ungated(g, color, request) == dispatch(g, color, request, TRUE)
respond_end_turn_ungated(g, color, request) ==
  dispatch(g, color, request, request.cmd = "end_turn" \/ g.turn = color)
respond_move_passes_turn(g, color, request) ==
  LET r == dispatch(g, color, request, g.turn = color)
  IN IF request.cmd = "move" /\ g.turn = color
     THEN [r EXCEPT !.game = end_turn(@)] ELSE r
respond_turn_of_other(g, color, request) ==
  dispatch(g, color, request, g.turn # color)
\* seconds_left always reads the running clock of the color to move
respond_seconds_left_of_active(g, color, request) ==
  dispatch(g, color, request, request.cmd = "seconds_left" \/ g.turn = color)

\* winner_color names the requesting color once the game is over
respond_winner_is_requester(g, color, request) ==
  LET r == dispatch(g, color, request, g.turn = color)
  IN IF request.cmd = "winner_color" /\ is_over(g)
     THEN [r EXCEPT !.response = Msg("winner_color", Some(color))]
     ELSE r
\* on_own_turn is fixed to the color that moves first
respond_gate_never_released(g, color, request) ==
  dispatch(g, color, request, color = WHITE)
\* seconds_left always reads the stored clock, also for the color to move
respond_seconds_left_stored(g, color, request) ==
  LET r == dispatch(g, color, request, g.turn = color)
  IN IF request.cmd = "seconds_left"
     THEN [r EXCEPT !.response =
                      Msg("seconds_left", Some(g.seconds_left_by_color[color]))]
     ELSE r
\* is_my_turn answers on_own_turn alone
respond_is_my_turn_on_turn_only(g, color, request) ==
  LET r == dispatch(g, color, request, g.turn = color)
  IN IF request.cmd = "is_my_turn"
     THEN [r EXCEPT !.response = Msg("is_my_turn", Some(g.turn = color))]
     ELSE r

\* on_own_turn = game.turn == color
respond(g, color, request) == dispatch(g, color, request, g.turn = color)

\* the key of the response dict each command is answered with
ResponseTag(cmd) ==
  CASE cmd = "starting_board" -> "board"
    [] cmd = "sense" -> "sense_result"
    [] cmd = "move" -> "move_result"
    [] OTHER -> cmd

NewQueues == [c \in Colors |-> [to_player |-> <<>>, to_moderator |-> <<>>]]

\* variants of serve: the answer goes to the other color's queue; a
\* 'not available' answer is not sent at all
serve_other_queue(g, queues, color) ==
  IF queues[color].to_moderator = <<>>
  THEN [game |-> g, queues |-> queues]
  ELSE LET r == dispatch(g, color, Head(queues[color].to_moderator), g.turn = color)
       IN [game |-> r.game,
           queues |-> [queues EXCEPT
                         ![color].to_moderator = Tail(@),
                         ![~color].to_player = Append(@, r.response)]]
serve_silent_when_unavailable(g, queues, color) ==
  IF queues[color].to_moderator = <<>>
  THEN [game |-> g, queues |-> queues]
  ELSE LET r == dispatch(g, color, Head(queues[color].to_moderator), g.turn = color)
       IN [game |-> r.game,
           queues |-> [queues EXCEPT
                         ![color].to_moderator = Tail(@),
                         ![color].to_player =
                            IF r.response.val = None THEN @ ELSE Append(@, r.response)]]

\* one iteration of `for color in chess.COLORS`: if the color's
\* 'to moderator' queue is not empty, get one request and answer it
serve(g, queues, color) ==
  IF queues[color].to_moderator = <<>>
  THEN [game |-> g, queues |-> queues]
  ELSE LET request == Head(queues[color].to_moderator)
           r == respond(g, color, request)
       IN [game |-> r.game,
           queues |-> [queues EXCEPT
                         ![color].to_moderator = Tail(@),
                         ![color].to_player = Append(@, r.response)]]

(* ------------------------------------------------------- the turn engine *)
\* The calls one play_turn makes, in order.  "game.x" is a call of the Game
\* interface, "player.x" a callback of the Player.

\* notify_opponent_move_results(game, player)
notify_opponent_move_results ==
  <<"game.opponent_move_results", "player.handle_opponent_move_result">>

\* play_sense(game, player, sense_actions, move_actions)
play_sense ==
  <<"game.get_seconds_left", "player.choose_sense", "game.sense",
    "player.handle_sense_result">>

\* a variant of play_move: the turn is ended before the move is applied
play_move_end_turn_first(end_turn_last) ==
  <<"game.get_seconds_left", "player.choose_move", "game.end_turn", "game.move",
    "player.handle_move_result">>
\* a variant of play_move: end_turn_last is read the wrong way round
play_move_flag_inverted(end_turn_last) ==
  <<"game.get_seconds_left", "player.choose_move", "game.move">>
    \o (IF end_turn_last THEN <<"game.end_turn">> ELSE <<>>)
    \o <<"player.handle_move_result">>
    \o (IF ~end_turn_last THEN <<"game.end_turn">> ELSE <<>>)

\* play_move(game, player, move_actions, end_turn_last)
play_move(end_turn_last) ==
  <<"game.get_seconds_left", "player.choose_move", "game.move">>
    \o (IF ~end_turn_last THEN <<"game.end_turn">> ELSE <<>>)
    \o <<"player.handle_move_result">>
    \o (IF end_turn_last THEN <<"game.end_turn">> ELSE <<>>)

\* a variant of play_turn: the opponent's move result is passed on before
\* the actions are queried
play_turn_notify_first(end_turn_last) ==
  notify_opponent_move_results
    \o <<"game.sense_actions", "game.move_actions">>
    \o play_sense
    \o play_move(end_turn_last)

\* play_turn(game, player, end_turn_last)
play_turn(end_turn_last) ==
  <<"game.sense_actions", "game.move_actions">>
    \o notify_opponent_move_results
    \o play_sense
    \o play_move(end_turn_last)

\* the end_turn_last each driver passes to play_turn
end_turn_last_of(driver_name) ==
  CASE driver_name = "play_local_game" -> TRUE
    [] driver_name = "play_remote_game" -> FALSE
    [] driver_name = "_play_in_multiprocessing_local_game" -> FALSE

IsGameCall(call) == call \in {"game.sense_actions", "game.move_actions",
                              "game.opponent_move_results", "game.get_seconds_left",
                              "game.sense", "game.move", "game.end_turn"}

\* the moves left to choose_move: the game is brought to an end by the
\* MaxTurns-th move
MoveChoices(g) == IF g.board.moved + 1 >= MaxTurns THEN {"king_capture"} ELSE Moves

\* the game after a call of the Game interface made directly on LocalGame
\* with argument arg (None where the call takes none)
call_game(g, call, arg) ==
  CASE call = "game.sense" -> sense(g, arg[1]).game
    [] call = "game.move" -> move(g, arg[1]).game
    [] call = "game.end_turn" -> end_turn(g)
    [] OTHER -> g

\* the arguments a call may be made with
Arguments(g, call) ==
  CASE call = "game.sense" -> {Some(sq) : sq \in sense_actions(g)}
    [] call = "game.move" -> {Some(m) : m \in MoveChoices(g)}
    [] OTHER -> {None}

\* MultiprocessingLocalGame: the command each call of the interface sends
StubCommand(call) ==
  CASE call = "game.sense_actions" -> "sense_actions"
    [] call = "game.move_actions" -> "move_actions"
    [] call = "game.opponent_move_results" -> "opponent_move_results"
    [] call = "game.get_seconds_left" -> "seconds_left"
    [] call = "game.sense" -> "sense"
    [] call = "game.move" -> "move"
    [] call = "game.end_turn" -> "end_turn"
    [] call = "get_player_color" -> "color"
    [] call = "get_starting_board" -> "starting_board"
    [] call = "get_opponent_name" -> "opponent_name"
    [] call = "start" -> "ready"
    [] call = "wait_for_turn" -> "is_my_turn"
    [] call = "is_over" -> "game_status"

(* ------------------------------------------------------------- the state *)
VARIABLES
  game,           \* the LocalGame the moderator (or play_local_game) owns
  player_queues,  \* player_queues[color]: 'to player' and 'to moderator'
  moderator,      \* where play_multiprocessing_local_game is: loop and position
  player,         \* where each player process is
  outcome,        \* what the driver of the whole game returned
  topology,       \* "local" (play_local_game) or "multiprocessing"
  driver,         \* where play_local_game is
  mover,          \* the color of the player play_local_game passed to play_turn
  turn_step,      \* turn_step[color]: the next call of the play_turn under way
  calls,          \* calls[color]: the calls the latest play_turn has made
  handled,        \* handled[color]: the arguments of each handle_game_start
                  \* and each handle_game_end the player of the color received
  gathered,       \* gathered[color]: the responses a process holds for the
                  \* callback it is about to make
  results         \* winner_color, win_reason, game_history of play_local_game

vars == <<game, player_queues, moderator, player, outcome,
          topology, driver, mover, turn_step, calls, handled, gathered, results>>

engine == <<topology, driver, mover, turn_step, calls>>
agents == <<handled, gathered, results>>

NotHandled == [c \in Colors |-> [start |-> <<>>, end |-> <<>>]]

Other(color) == ~color

\* the positions inside `for color in chess.COLORS`
Slot(color) == IF color = WHITE THEN 1 ELSE 2
AfterSlot(i) == IF i < Len(COLORS) THEN i + 1 ELSE 0

is_alive(p) == p # "exited"
\* a variant of any_alive: the second loop is not entered
none_alive(players) == FALSE
\* any([process.is_alive() for process in player_processes])
any_alive(players) == \E c \in Colors : is_alive(players[c])

PendingRecords(queues) ==
  Cardinality({c \in Colors :
                 /\ queues[c].to_moderator # <<>>
                 /\ Head(queues[c].to_moderator).cmd \in {"sense", "move"}})

Idle(color) == player_queues[color] = [to_player |-> <<>>, to_moderator |-> <<>>]

(* ---------------------------------------------- the multiprocessing game *)
\* play_multiprocessing_local_game once both processes are started
MultiprocessingInit(first) ==
  /\ game = NewGame
  /\ player_queues = NewQueues
  /\ moderator = [loop |-> "start", at |-> 0]
  /\ player = [c \in Colors |-> first]
  /\ outcome = None
  /\ topology = "multiprocessing"
  /\ driver = "none"
  /\ mover = WHITE
  /\ turn_step = [c \in Colors |-> 0]
  /\ calls = [c \in Colors |-> <<>>]
  /\ handled = NotHandled
  /\ gathered = [c \in Colors |-> <<>>]
  /\ results = None

\* game.start()
GameStart ==
  /\ moderator = [loop |-> "start", at |-> 0]
  /\ game' = start(game)
  /\ moderator' = [loop |-> "play", at |-> 0]
  /\ UNCHANGED <<player_queues, player, outcome, engine, agents>>

\* while not game.is_over(): enter one pass of _respond_to_requests
WhileNotOver ==
  /\ moderator = [loop |-> "play", at |-> 0]
  /\ ~is_over(game)
  /\ moderator' = [moderator EXCEPT !.at = 1]
  /\ UNCHANGED <<game, player_queues, player, outcome, engine, agents>>

\* the game is over: leave the first loop and call game.end()
GameEnd ==
  /\ moderator = [loop |-> "play", at |-> 0]
  /\ is_over(game)
  /\ game' = end(game)
  /\ moderator' = [loop |-> "drain", at |-> 0]
  /\ UNCHANGED <<player_queues, player, outcome, engine, agents>>

\* while any process is alive: enter one pass of _respond_to_requests
WhileAnyAlive ==
  /\ moderator = [loop |-> "drain", at |-> 0]
  /\ any_alive(player)
  /\ moderator' = [moderator EXCEPT !.at = 1]
  /\ UNCHANGED <<game, player_queues, player, outcome, engine, agents>>

\* no process is alive: return the result
Return ==
  /\ moderator = [loop |-> "drain", at |-> 0]
  /\ ~any_alive(player)
  /\ moderator' = [loop |-> "returned", at |-> 0]
  /\ outcome' = Some(<<get_winner_color(game), get_win_reason(game),
                       get_game_history(game)>>)
  /\ UNCHANGED <<game, player_queues, player, engine, agents>>

\* _respond_to_requests, one color of its for loop (the player processes
\* run between the two iterations)
RespondToRequests ==
  /\ moderator.at > 0
  /\ LET r == serve(game, player_queues, COLORS[moderator.at])
     IN /\ game' = r.game
        /\ player_queues' = r.queues
  /\ moderator' = [moderator EXCEPT !.at = AfterSlot(@)]
  /\ UNCHANGED <<player, outcome, engine, agents>>

\* a second passes on the clock of the color to move
Tick ==
  /\ game.started
  /\ ~is_over(game)
  /\ get_seconds_left(game) > 0
  /\ game' = tick(game)
  /\ UNCHANGED <<player_queues, moderator, player, outcome, engine, agents>>

\* after its loop the process asks for winner_color, win_reason, game_history
PlayerResultQuery(color) ==
  /\ player[color] \in {"winner_color", "win_reason", "game_history"}
  /\ Idle(color)
  /\ player_queues' = [player_queues EXCEPT
                         ![color].to_moderator = Append(@, Request(player[color], None))]
  /\ UNCHANGED <<game, moderator, player, outcome, engine, agents>>

\* the arguments of the callback from the responses held: winner_color and
\* win_reason may be None, the third response is always present
HandleGameEndArgs(held) == <<held[1], held[2], held[3][1]>>
HandleGameStartArgs(held) == <<held[1][1], held[2][1], held[3][1]>>

\* player.handle_game_end(winner_color, win_reason, game_history) returns and
\* the process ends
PlayerExit(color) ==
  /\ player[color] = "handle_game_end"
  /\ player' = [player EXCEPT ![color] = "exited"]
  /\ handled' = [handled EXCEPT
                   ![color].end = Append(@, HandleGameEndArgs(gathered[color]))]
  /\ gathered' = [gathered EXCEPT ![color] = <<>>]
  /\ UNCHANGED <<game, player_queues, moderator, outcome, engine, results>>

(* ----------------- player processes that may send any command at any time *)
\* a player process puts one request and then waits for its response
PlayerRequest(color) ==
  /\ player[color] = "play"
  /\ Idle(color)
  /\ \E request \in Requests :
       /\ request.cmd \in {"sense", "move"} =>
            Len(game.history) + PendingRecords(player_queues) < MaxHistory
       /\ player_queues' = [player_queues EXCEPT
                              ![color].to_moderator = Append(@, request)]
  /\ UNCHANGED <<game, moderator, player, outcome, engine, agents>>

AfterResponse(p, response) ==
  CASE p = "play" ->
         IF response.tag = "game_status" /\ response.val[1].is_over
         THEN {"play", "winner_color"} ELSE {"play"}
    [] p = "winner_color" -> {"win_reason"}
    [] p = "win_reason" -> {"game_history"}
    [] p = "game_history" -> {"handle_game_end"}
    [] OTHER -> {p}

\* the waiting process gets its response
PlayerReceive(color) ==
  /\ is_alive(player[color])
  /\ player_queues[color].to_player # <<>>
  /\ \E p \in AfterResponse(player[color], Head(player_queues[color].to_player)) :
       player' = [player EXCEPT ![color] = p]
  /\ gathered' = IF player[color] \in {"winner_color", "win_reason", "game_history"}
                 THEN [gathered EXCEPT
                         ![color] = Append(@, Head(player_queues[color].to_player).val)]
                 ELSE gathered
  /\ player_queues' = [player_queues EXCEPT ![color].to_player = Tail(@)]
  /\ UNCHANGED <<game, moderator, outcome, engine, handled, results>>

Moderator ==
  GameStart \/ WhileNotOver \/ GameEnd \/ WhileAnyAlive \/ Return \/ RespondToRequests

Init == MultiprocessingInit("play")

Next ==
  \/ GameStart
  \/ WhileNotOver
  \/ GameEnd
  \/ WhileAnyAlive
  \/ Return
  \/ RespondToRequests
  \/ \E color \in Colors : PlayerRequest(color)
  \/ \E color \in Colors : PlayerResultQuery(color)
  \/ \E color \in Colors : PlayerReceive(color)
  \/ \E color \in Colors : PlayerExit(color)
  \/ Tick

Spec == Init /\ [][Next]_vars

(* ------------- player processes as _play_in_multiprocessing_local_game *)
\* MultiprocessingLocalGame sends one command per call of the interface and
\* waits for its response; is_over() first waits for the player's turn by
\* polling is_my_turn and then asks for game_status.
SetupCalls == {"get_player_color", "get_starting_board", "get_opponent_name",
               "start", "wait_for_turn", "is_over"}

\* the play_turn of a process has made its call turn_step[color]
AfterCall(color) ==
  IF turn_step[color] = Len(play_turn(end_turn_last_of("_play_in_multiprocessing_local_game")))
  THEN /\ player' = [player EXCEPT ![color] = "wait_for_turn"]
       /\ turn_step' = [turn_step EXCEPT ![color] = 0]
  ELSE /\ player' = player
       /\ turn_step' = [turn_step EXCEPT ![color] = @ + 1]

\* the call the play_turn of a process is at
ProcessCall(color) ==
  play_turn(end_turn_last_of("_play_in_multiprocessing_local_game"))[turn_step[color]]

\* a call of the stub outside play_turn: the arguments of handle_game_start,
\* game.start() and the loop test game.is_over()
ProcessSetupCall(color) ==
  /\ player[color] \in SetupCalls
  /\ Idle(color)
  /\ player_queues' = [player_queues EXCEPT
                         ![color].to_moderator =
                            Append(@, Request(StubCommand(player[color]), None))]
  /\ UNCHANGED <<game, moderator, player, outcome, engine, agents>>

\* player.handle_game_start(color, board, opponent_name)
ProcessHandleGameStart(color) ==
  /\ player[color] = "handle_game_start"
  /\ player' = [player EXCEPT ![color] = "start"]
  /\ handled' = [handled EXCEPT
                   ![color].start = Append(@, HandleGameStartArgs(gathered[color]))]
  /\ gathered' = [gathered EXCEPT ![color] = <<>>]
  /\ UNCHANGED <<game, player_queues, moderator, outcome, engine, results>>

\* play_turn in a process: a call of the Game interface goes to the moderator
ProcessGameCall(color) ==
  /\ player[color] = "play_turn"
  /\ IsGameCall(ProcessCall(color))
  /\ Idle(color)
  /\ \E arg \in Arguments(game, ProcessCall(color)) :
       player_queues' = [player_queues EXCEPT
                           ![color].to_moderator =
                              Append(@, Request(StubCommand(ProcessCall(color)), arg))]
  /\ calls' = [calls EXCEPT ![color] = Append(@, ProcessCall(color))]
  /\ UNCHANGED <<game, moderator, player, outcome, topology, driver, mover, turn_step,
                 agents>>

\* play_turn in a process: a callback of the player
ProcessCallback(color) ==
  /\ player[color] = "play_turn"
  /\ ~IsGameCall(ProcessCall(color))
  /\ calls' = [calls EXCEPT ![color] = Append(@, ProcessCall(color))]
  /\ AfterCall(color)
  /\ UNCHANGED <<game, player_queues, moderator, outcome, topology, driver, mover,
                 agents>>

\* the waiting process gets its response and goes on
ProcessReceive(color) ==
  /\ player[color] \in SetupCalls \cup {"play_turn", "winner_color", "win_reason",
                                        "game_history"}
  /\ player_queues[color].to_player # <<>>
  /\ player_queues' = [player_queues EXCEPT ![color].to_player = Tail(@)]
  /\ LET response == Head(player_queues[color].to_player)
         goto(p) == /\ player' = [player EXCEPT ![color] = p]
                    /\ UNCHANGED <<turn_step, calls, gathered>>
         \* the response is kept for the callback to come
         hold(p) == /\ player' = [player EXCEPT ![color] = p]
                    /\ gathered' = [gathered EXCEPT ![color] = Append(@, response.val)]
                    /\ UNCHANGED <<turn_step, calls>>
     IN CASE player[color] = "get_player_color" -> hold("get_starting_board")
          [] player[color] = "get_starting_board" -> hold("get_opponent_name")
          [] player[color] = "get_opponent_name" -> hold("handle_game_start")
          [] player[color] = "start" -> goto("wait_for_turn")
          [] player[color] = "wait_for_turn" ->
               IF response.val = Some(TRUE) THEN goto("is_over")
               ELSE goto("wait_for_turn")
          [] player[color] = "is_over" ->
               IF response.val[1].is_over THEN goto("winner_color")
               ELSE /\ player' = [player EXCEPT ![color] = "play_turn"]
                    /\ turn_step' = [turn_step EXCEPT ![color] = 1]
                    /\ calls' = [calls EXCEPT ![color] = <<>>]
                    /\ gathered' = gathered
          [] player[color] = "play_turn" ->
               AfterCall(color) /\ UNCHANGED <<calls, gathered>>
          [] player[color] = "winner_color" -> hold("win_reason")
          [] player[color] = "win_reason" -> hold("game_history")
          [] player[color] = "game_history" -> hold("handle_game_end")
  /\ UNCHANGED <<game, moderator, outcome, topology, driver, mover, handled, results>>

(* ------------------------------------------------------ play_local_game *)
\* a variant of players: the list starts with the white player
players_white_first == <<WHITE, BLACK>>
\* players = [black_player, white_player], each named by its color
players == <<BLACK, WHITE>>

\* play_local_game once the names are stored
LocalInit ==
  /\ game = NewGame
  /\ player_queues = NewQueues
  /\ moderator = [loop |-> "none", at |-> 0]
  /\ player = [c \in Colors |-> "in_process"]
  /\ outcome = None
  /\ topology = "local"
  /\ driver = "handle_game_start_white"
  /\ mover = WHITE
  /\ turn_step = [c \in Colors |-> 0]
  /\ calls = [c \in Colors |-> <<>>]
  /\ handled = NotHandled
  /\ gathered = [c \in Colors |-> <<>>]
  /\ results = None

\* white_player.handle_game_start, then black_player.handle_game_start
LocalHandleGameStart ==
  /\ driver \in {"handle_game_start_white", "handle_game_start_black"}
  /\ driver' = IF driver = "handle_game_start_white"
               THEN "handle_game_start_black" ELSE "start"
  /\ handled' = IF driver = "handle_game_start_white"
                THEN [handled EXCEPT
                        ![WHITE].start = Append(@, <<WHITE, game.board, BlackName>>)]
                ELSE [handled EXCEPT
                        ![BLACK].start = Append(@, <<BLACK, game.board, WhiteName>>)]
  /\ UNCHANGED <<game, player_queues, moderator, player, outcome,
                 topology, mover, turn_step, calls, gathered, results>>

\* game.start()
LocalStart ==
  /\ driver = "start"
  /\ game' = start(game)
  /\ driver' = "while"
  /\ UNCHANGED <<player_queues, moderator, player, outcome,
                 topology, mover, turn_step, calls, agents>>

\* a variant of LocalWhile: play_turn is called without the loop test
LocalWhileUntested ==
  /\ driver = "while"
  /\ driver' = "play_turn"
  /\ mover' = TupleAt(players, game.turn)
  /\ turn_step' = [turn_step EXCEPT ![mover'] = 1]
  /\ calls' = [calls EXCEPT ![mover'] = <<>>]
  /\ UNCHANGED <<game, player_queues, moderator, player, outcome, topology, agents>>

\* while not game.is_over(): play_turn(game, players[game.turn], True)
LocalWhile ==
  /\ driver = "while"
  /\ ~is_over(game)
  /\ driver' = "play_turn"
  /\ mover' = TupleAt(players, game.turn)
  /\ turn_step' = [turn_step EXCEPT ![mover'] = 1]
  /\ calls' = [calls EXCEPT ![mover'] = <<>>]
  /\ UNCHANGED <<game, player_queues, moderator, player, outcome, topology, agents>>

\* play_turn called by play_local_game: its next call, made on the game
LocalPlayTurn ==
  /\ driver = "play_turn"
  /\ LET program == play_turn(end_turn_last_of("play_local_game"))
         call == program[turn_step[mover]]
     IN /\ \E arg \in Arguments(game, call) : game' = call_game(game, call, arg)
        /\ calls' = [calls EXCEPT ![mover] = Append(@, call)]
        /\ IF turn_step[mover] = Len(program)
           THEN /\ driver' = "while"
                /\ turn_step' = [turn_step EXCEPT ![mover] = 0]
           ELSE /\ driver' = driver
                /\ turn_step' = [turn_step EXCEPT ![mover] = @ + 1]
  /\ UNCHANGED <<player_queues, moderator, player, outcome, topology, mover, agents>>

\* the game is over: game.end() and the three result queries
LocalGameEnd ==
  /\ driver = "while"
  /\ is_over(game)
  /\ game' = end(game)
  /\ results' = Some(<<get_winner_color(game'), get_win_reason(game'),
                        get_game_history(game')>>)
  /\ driver' = "handle_game_end_white"
  /\ UNCHANGED <<player_queues, moderator, player, outcome,
                 topology, mover, turn_step, calls, handled, gathered>>

\* white_player.handle_game_end, then black_player.handle_game_end
LocalHandleGameEnd ==
  /\ driver \in {"handle_game_end_white", "handle_game_end_black"}
  /\ driver' = IF driver = "handle_game_end_white"
               THEN "handle_game_end_black" ELSE "return"
  /\ handled' = IF driver = "handle_game_end_white"
                THEN [handled EXCEPT ![WHITE].end = Append(@, results[1])]
                ELSE [handled EXCEPT ![BLACK].end = Append(@, results[1])]
  /\ UNCHANGED <<game, player_queues, moderator, player, outcome,
                 topology, mover, turn_step, calls, gathered, results>>

\* return winner_color, win_reason, game_history
LocalReturn ==
  /\ driver = "return"
  /\ driver' = "returned"
  /\ outcome' = results
  /\ UNCHANGED <<game, player_queues, moderator, player,
                 topology, mover, turn_step, calls, agents>>

(* ------------------------------- whole games driven through play_turn *)
PlayInit == LocalInit \/ MultiprocessingInit("get_player_color")

PlayNext ==
  \/ GameStart
  \/ WhileNotOver
  \/ GameEnd
  \/ WhileAnyAlive
  \/ Return
  \/ RespondToRequests
  \/ \E color \in Colors : ProcessSetupCall(color)
  \/ \E color \in Colors : ProcessHandleGameStart(color)
  \/ \E color \in Colors : ProcessGameCall(color)
  \/ \E color \in Colors : ProcessCallback(color)
  \/ \E color \in Colors : ProcessReceive(color)
  \/ \E color \in Colors : PlayerResultQuery(color)
  \/ \E color \in Colors : PlayerExit(color)
  \/ LocalHandleGameStart
  \/ LocalStart
  \/ LocalWhile
  \/ LocalPlayTurn
  \/ LocalGameEnd
  \/ LocalHandleGameEnd
  \/ LocalReturn
  \/ Tick

PlaySpec == PlayInit /\ [][PlayNext]_vars

\* the moderator is a running process: it always takes its next step
FairPlaySpec == PlaySpec /\ WF_vars(Moderator)

\* the steps of one player process
Process(color) ==
  \/ ProcessSetupCall(color)
  \/ ProcessHandleGameStart(color)
  \/ ProcessGameCall(color)
  \/ ProcessCallback(color)
  \/ ProcessReceive(color)
  \/ PlayerResultQuery(color)
  \/ PlayerExit(color)

\* the moderator and both player processes are running processes, and the
\* callbacks of the players return
LivePlaySpec ==
  PlaySpec /\ WF_vars(Moderator) /\ \A color \in Colors : WF_vars(Process(color))


(* ------------------------------------------------ what a step has served *)
\* in this step the moderator took a request of `color` off its queue
Served(color) ==
  Len(player_queues'[color].to_moderator) < Len(player_queues[color].to_moderator)
ServedRequest(color) == Head(player_queues[color].to_moderator)
\* in this step a message was put on the color's 'to player' queue
Answered(color) ==
  Len(player_queues'[color].to_player) > Len(player_queues[color].to_player)
Answer(color) ==
  player_queues'[color].to_player[Len(player_queues'[color].to_player)]
Waiting(color) == player_queues[color].to_player
OffTurnGated(color) ==
  /\ Served(color)
  /\ ServedRequest(color).cmd \in GatedCommands
  /\ game.turn # color

(* ------------------------------------------------------------------- C1 *)
\* C1: whenever the moderator serves a sense_actions, move_actions,
\* opponent_move_results, sense or move request of the color whose turn it
\* is not, the payload of the response is None and the game (board, turn,
\* both clocks, history, result) is the same after the step as before.
C1_GatedConfidentiality ==
  [][\A color \in Colors :
       OffTurnGated(color) =>
         /\ Answered(color)
         /\ Answer(color).val = None
         /\ game' = game]_vars

\* a refused sense or move is waiting for a player while the game goes on
C1_Witness ==
  \E color \in Colors :
    /\ Waiting(color) # <<>>
    /\ Head(Waiting(color)).tag \in {"sense_result", "move_result"}
    /\ Head(Waiting(color)).val = None
    /\ ~is_over(game)

(* ------------------------------------------------------------------- C2 *)
\* C2: an end_turn request of the color whose turn it is not is answered
\* with the bare None and leaves turn, clocks, board and history as they
\* were.
C2_EndTurnOffTurn ==
  [][\A color \in Colors :
       (Served(color) /\ ServedRequest(color).cmd = "end_turn" /\ game.turn # color) =>
         /\ Answered(color)
         /\ Answer(color) = NoneMsg
         /\ game'.turn = game.turn
         /\ game'.seconds_left_by_color = game.seconds_left_by_color
         /\ game'.elapsed = game.elapsed
         /\ game'.board = game.board
         /\ game'.history = game.history]_vars

\* the bare None is waiting for the color that is not to move
C2_Witness ==
  \E color \in Colors :
    /\ Waiting(color) # <<>>
    /\ Head(Waiting(color)) = NoneMsg
    /\ game.turn # color
    /\ ~is_over(game)

(* ------------------------------------------------------------------- C3 *)
ActiveEndTurn(color) ==
  /\ Served(color)
  /\ ServedRequest(color).cmd = "end_turn"
  /\ game.turn = color
  /\ ~is_over(game)

\* C3: the turn changes only in a step that serves an end_turn request of
\* the color to move while the game is in progress; every such step flips
\* the turn, and the state in which the 'done' acknowledgement appears on
\* the queue already has the turn flipped.
C3_TurnOnlyByEndTurn ==
  /\ [][game'.turn # game.turn => \E color \in Colors : ActiveEndTurn(color)]_vars
  /\ [][\A color \in Colors :
          ActiveEndTurn(color) =>
            /\ game'.turn = Other(color)
            /\ Answered(color)
            /\ Answer(color) = Msg("end_turn", Some("done"))]_vars

\* Black is to move and White holds the acknowledgement of its end_turn
C3_Witness ==
  /\ game.turn = BLACK
  /\ Waiting(WHITE) # <<>>
  /\ Head(Waiting(WHITE)) = Msg("end_turn", Some("done"))
  /\ ~is_over(game)

(* ------------------------------------------------------------------- C4 *)
\* C4 as stated: every end_turn the moderator carries out passes the turn,
\* and every is_my_turn answer is true for the color to move and false for
\* the other color, so that between two end_turn calls exactly one color is
\* answered true.
C4_AsStated ==
  /\ [][\A color \in Colors : ActiveEndTurn(color) => game'.turn = Other(color)]_vars
  /\ [][\A color \in Colors :
          (Served(color) /\ ServedRequest(color).cmd = "is_my_turn") =>
            Answer(color).val = Some(game.turn = color)]_vars

\* C4: while the game is in progress, every end_turn request of the color
\* to move passes the turn to the other color, and an is_my_turn request is
\* answered true for the color to move and false for the other color.
C4_TurnAlternation ==
  /\ [][\A color \in Colors :
          (Served(color) /\ ServedRequest(color).cmd = "is_my_turn"
             /\ ~is_over(game)) =>
            Answer(color).val = Some(game.turn = color)]_vars
  /\ [][\A color \in Colors : ActiveEndTurn(color) => game'.turn = Other(color)]_vars

\* after an end_turn the color not to move holds the answer false
C4_Witness ==
  /\ game.turn = BLACK
  /\ Waiting(WHITE) # <<>>
  /\ Head(Waiting(WHITE)) = Msg("is_my_turn", Some(FALSE))
  /\ ~is_over(game)

(* ------------------------------------------------------------------- C5 *)
Range(seq) == {seq[i] : i \in 1..Len(seq)}
Count(seq, x) == Cardinality({i \in 1..Len(seq) : seq[i] = x})
Select(seq, S) == SelectSeq(seq, LAMBDA x : x \in S)
IsPrefix(a, b) == Len(a) <= Len(b) /\ SubSeq(b, 1, Len(a)) = a
\* x is in the log, and before every y of the log
Before(seq, x, y) ==
  /\ x \in Range(seq)
  /\ \A i, j \in 1..Len(seq) : (seq[i] = x /\ seq[j] = y) => i < j

\* play_turn has returned for the player of this color
Completed(color) == turn_step[color] = 0 /\ calls[color] # <<>>

TurnOrder ==
  <<"player.handle_opponent_move_result", "player.choose_sense", "game.sense",
    "player.handle_sense_result", "player.choose_move", "game.move",
    "player.handle_move_result">>

\* C5: the calls a play_turn makes of handle_opponent_move_result,
\* choose_sense, game.sense, handle_sense_result, choose_move, game.move and
\* handle_move_result are made in this order, each once, and game.end_turn
\* is called once, after game.move; when play_turn returns all of them have
\* been made.  This holds under play_local_game (end_turn_last = True, calls
\* made on LocalGame) and in a player process (end_turn_last = False, calls
\* sent to the moderator).
C5_PlayTurnCalls ==
  \A color \in Colors :
    /\ IsPrefix(Select(calls[color], Range(TurnOrder)), TurnOrder)
    /\ Count(calls[color], "game.end_turn") <= 1
    /\ "game.end_turn" \in Range(calls[color]) =>
         Before(calls[color], "game.move", "game.end_turn")
    /\ Completed(color) =>
         /\ Select(calls[color], Range(TurnOrder)) = TurnOrder
         /\ Count(calls[color], "game.end_turn") = 1

\* play_local_game: play_turn has returned for Black
C5_Witness == topology = "local" /\ Completed(BLACK) /\ driver = "while"

(* ------------------------------------------------------------------- C6 *)
\* C6: in a player process (end_turn_last = False) game.end_turn is called
\* after game.move and before handle_move_result; under play_local_game
\* (end_turn_last = True) it is called after handle_move_result; and
\* play_remote_game passes end_turn_last = False like the player process.
C6_EndTurnOrder ==
  /\ \A color \in Colors :
       /\ (topology = "multiprocessing"
             /\ "player.handle_move_result" \in Range(calls[color])) =>
            /\ Before(calls[color], "game.move", "game.end_turn")
            /\ Before(calls[color], "game.end_turn", "player.handle_move_result")
       /\ (topology = "local" /\ "game.end_turn" \in Range(calls[color])) =>
            Before(calls[color], "player.handle_move_result", "game.end_turn")
       /\ (topology = "local" /\ Completed(color)) =>
            calls[color][Len(calls[color])] = "game.end_turn"
  /\ end_turn_last_of("play_local_game")
  /\ ~end_turn_last_of("play_remote_game")
  /\ ~end_turn_last_of("_play_in_multiprocessing_local_game")

\* White's process is in handle_move_result of its first turn and the
\* moderator has already passed the turn to Black
C6_Witness ==
  /\ topology = "multiprocessing"
  /\ player[WHITE] = "play_turn"
  /\ play_turn(FALSE)[turn_step[WHITE]] = "player.handle_move_result"
  /\ game.turn = BLACK
  /\ ~is_over(game)

(* ------------------------------------------------------------------- C7 *)
\* the message answers the request: it carries the key of the command's
\* response dict, or is the bare None a refused end_turn is answered with
Answers(message, request) ==
  \/ message.tag = ResponseTag(request.cmd)
  \/ request.cmd = "end_turn" /\ message = NoneMsg

\* C7: a step that takes a request off a color's 'to moderator' queue takes
\* exactly the oldest one, at that color's place in the pass, and appends
\* exactly one message, the answer to that request, to the same color's
\* 'to player' queue; it touches neither queue of the other color; and no
\* message appears on a 'to player' queue in any other step.  With one
\* request in flight per color the k-th response answers the k-th request.
C7_RequestResponsePairing ==
  /\ [][\A color \in Colors :
          Served(color) =>
            /\ moderator.at = Slot(color)
            /\ moderator'.at # Slot(color)
            /\ player_queues'[color].to_moderator =
                 Tail(player_queues[color].to_moderator)
            /\ Len(player_queues'[color].to_player) =
                 Len(player_queues[color].to_player) + 1
            /\ SubSeq(player_queues'[color].to_player, 1,
                      Len(player_queues[color].to_player)) =
                 player_queues[color].to_player
            /\ Answers(Answer(color), ServedRequest(color))
            /\ player_queues'[Other(color)] = player_queues[Other(color)]]_vars
  /\ [][\A color \in Colors : Answered(color) => Served(color)]_vars
  /\ [](\A color \in Colors :
          Len(player_queues[color].to_moderator)
            + Len(player_queues[color].to_player) <= 1)

\* each color holds the answer to its own request: Black a refused
\* move_actions, White the real one
C7_Witness ==
  /\ Waiting(BLACK) = <<Msg("move_actions", None)>>
  /\ Waiting(WHITE) = <<Msg("move_actions", Some(Moves))>>

(* ------------------------------------------------------------------- C8 *)
\* C8: with the moderator taking its steps, every request a player process
\* has put on its 'to moderator' queue is answered, before and after the
\* game is over; and play_multiprocessing_local_game returns only when the
\* game is over, no process is alive and no request is left unanswered.
C8_NoPeerDeadlock ==
  /\ \A color \in Colors :
       (player_queues[color].to_moderator # <<>>)
         ~> (player_queues[color].to_moderator = <<>>
               /\ player_queues[color].to_player # <<>>)
  /\ [](moderator.loop = "returned" =>
          /\ is_over(game)
          /\ \A color \in Colors :
               /\ ~is_alive(player[color])
               /\ player_queues[color].to_moderator = <<>>)

\* the game is over, White's process has exited and Black's process holds
\* the answer to its game_history request
C8_Witness ==
  /\ topology = "multiprocessing"
  /\ is_over(game)
  /\ moderator.loop = "drain"
  /\ player[WHITE] = "exited"
  /\ player[BLACK] = "game_history"
  /\ Waiting(BLACK) # <<>>
  /\ Head(Waiting(BLACK)).tag = "game_history"

(* ------------------------------------------------------------------- C9 *)
\* both colors served from (g, queues), `first` before the other
ServeBoth(g, queues, first) ==
  LET a == serve(g, queues, first)
  IN serve(a.game, a.queues, Other(first))

BothPending ==
  /\ moderator.at = 1
  /\ \A color \in Colors : player_queues[color].to_moderator # <<>>

\* the request changes the game: a sense, move or end_turn of the color to
\* move while the game is in progress
ChangesGame(g, color, request) ==
  /\ g.turn = color
  /\ ~is_over(g)
  /\ request.cmd \in {"sense", "move", "end_turn"}

\* C9 as stated: when both colors have a request pending at the start of a
\* pass, serving White first and serving Black first give the same pair of
\* responses and the same game.
C9_AsStated ==
  BothPending =>
    ServeBoth(game, player_queues, WHITE) = ServeBoth(game, player_queues, BLACK)

\* C9: when both colors have a request pending at the start of a pass and
\* the request of the color to move is not a sense, move or end_turn served
\* while the game is in progress, serving White first and serving Black
\* first give the same pair of responses and the same game.
C9_PollingOrder ==
  (BothPending
     /\ ~ChangesGame(game, game.turn, Head(player_queues[game.turn].to_moderator)))
    => ServeBoth(game, player_queues, WHITE) = ServeBoth(game, player_queues, BLACK)

\* at the start of a pass the color to move asks for the game history and
\* the other color asks to sense
C9_Witness ==
  /\ BothPending
  /\ ~is_over(game)
  /\ Head(player_queues[game.turn].to_moderator).cmd = "game_history"
  /\ Head(player_queues[Other(game.turn)].to_moderator).cmd = "sense"

(* ------------------------------------------------------------------ C10 *)
\* a gated command or end_turn off turn, or a sense, move or end_turn once
\* the game is over
Violation(g, color, request) ==
  \/ request.cmd \in GatedCommands \cup {"end_turn"} /\ g.turn # color
  \/ request.cmd \in {"sense", "move", "end_turn"} /\ is_over(g)

\* C10: a step that serves a protocol violation still puts the answer on
\* the violating color's queue, leaves the game (board, turn, clocks,
\* history, result) as it was, and leaves the moderator in its loop at the
\* next place of the pass.
C10_ViolationsHarmless ==
  [][\A color \in Colors :
       (Served(color) /\ Violation(game, color, ServedRequest(color))) =>
         /\ Answered(color)
         /\ Answers(Answer(color), ServedRequest(color))
         /\ game' = game
         /\ moderator'.loop = moderator.loop
         /\ moderator'.at = AfterSlot(moderator.at)]_vars

\* the game is over and the color to move holds the answer to a move it
\* requested after the end: no move was taken
C10_Witness ==
  /\ is_over(game)
  /\ Waiting(game.turn) # <<>>
  /\ Head(Waiting(game.turn)).tag = "move_result"
  /\ Head(Waiting(game.turn)).val # None
  /\ Head(Waiting(game.turn)).val[1][2] = None

(* ------------------------------------------------------------------ C11 *)
\* the clock of a color as the game holds it: the stored seconds, less the
\* time run since the start of the turn when the color is the one to move
OwnClock(g, color) ==
  g.seconds_left_by_color[color] - (IF g.turn = color THEN g.elapsed ELSE 0)

\* the clock values a color can be left with
ClockValues == 0..SecondsPerPlayer

\* C11: a step that serves a seconds_left request of a color answers with
\* that color's own clock (live when the color is to move, stored when it is
\* not), and the answer is the same whatever the stored clock of the other
\* color is.
C11_OwnClockOnly ==
  [][\A color \in Colors :
       (Served(color) /\ ServedRequest(color).cmd = "seconds_left") =>
         /\ Answer(color) = Msg("seconds_left", Some(OwnClock(game, color)))
         /\ \A v \in ClockValues :
              respond([game EXCEPT !.seconds_left_by_color[Other(color)] = v],
                      color, ServedRequest(color)).response = Answer(color)]_vars

\* the two clocks differ and each color holds its own: White has run out
\* of time and is told 0, Black is told its untouched clock
C11_Witness ==
  /\ Waiting(WHITE) = <<Msg("seconds_left", Some(0))>>
  /\ Waiting(BLACK) = <<Msg("seconds_left", Some(SecondsPerPlayer))>>
  /\ game.turn = WHITE

(* ------------------------------------------------------------------ C12 *)
\* C12: an is_my_turn request is answered true exactly when it is the
\* caller's turn or the game is over; and a process that waits for its turn
\* by polling is_my_turn when the game is over and the turn is not its own
\* is released and learns from game_status that the game is over.
C12_IsMyTurnReleases ==
  /\ [][\A color \in Colors :
          (Served(color) /\ ServedRequest(color).cmd = "is_my_turn") =>
            Answer(color) =
              Msg("is_my_turn", Some(game.turn = color \/ is_over(game)))]_vars
  /\ \A color \in Colors :
       (is_over(game) /\ game.turn # color /\ player[color] = "wait_for_turn")
         ~> (player[color] = "winner_color" /\ game.turn # color)

\* the game is over with White still to move, and Black's process, which
\* was waiting for its turn, has left its loop
C12_Witness ==
  /\ topology = "multiprocessing"
  /\ is_over(game)
  /\ game.turn = WHITE
  /\ player[BLACK] = "winner_color"
  /\ calls[BLACK] = <<>>

(* ------------------------------------------------------------------ C13 *)
\* a play_turn starts for the player of `color` in this step
PlayTurnStarts(color) == turn_step[color] = 0 /\ turn_step'[color] = 1

AfterLocalLoop == driver \in {"handle_game_end_white", "handle_game_end_black",
                              "return", "returned"}

\* C13: under play_local_game each player receives handle_game_start at
\* most once, and has received it once game.start() is called and before
\* its first call or callback of a play_turn; no play_turn starts when the
\* game is over; handle_game_end is received at most once, only after the
\* loop, with the game over and no play_turn under way; and when the
\* function has returned each player has received handle_game_end once,
\* with the triple (winner_color, win_reason, game_history) that was
\* returned, which is the result the game holds.
C13_LocalGameOrdering ==
  /\ [](topology = "local" =>
          /\ \A color \in Colors :
               /\ Len(handled[color].start) <= 1
               /\ Len(handled[color].end) <= 1
               /\ game.started => Len(handled[color].start) = 1
               /\ (calls[color] # <<>> \/ turn_step[color] > 0) =>
                    (Len(handled[color].start) = 1 /\ game.started)
               /\ handled[color].end # <<>> =>
                    /\ AfterLocalLoop
                    /\ is_over(game)
                    /\ \A c \in Colors : turn_step[c] = 0
               /\ driver = "returned" =>
                    /\ outcome # None
                    /\ handled[color].end = <<outcome[1]>>
          /\ outcome # None =>
               outcome[1] = <<get_winner_color(game), get_win_reason(game),
                              get_game_history(game)>>)
  /\ [][topology = "local" =>
          \A color \in Colors : PlayTurnStarts(color) => ~is_over(game)]_vars

\* play_local_game has returned a win by king capture after both players
\* were told of it
C13_Witness ==
  /\ topology = "local"
  /\ driver = "returned"
  /\ outcome # None
  /\ outcome[1][2] = Some("KING_CAPTURE")
  /\ \A color \in Colors : Len(handled[color].end) = 1

(* ------------------------------------------------------------------ C14 *)
TimeoutAgainst(color) == Some([winner |-> Other(color), reason |-> "TIMEOUT"])

C15_GatingReleased ==
  /\ [][\A color \in Colors :
          (Served(color) /\ ServedRequest(color).cmd = "move_actions") =>
            Answer(color) =
              Msg("move_actions",
                  IF game.turn = color THEN Some(move_actions(game)) ELSE None)]_vars
  /\ [][\A color \in Colors :
          ActiveEndTurn(color) =>
            /\ game'.turn = Other(color)
            /\ respond(game', Other(color), Request("move_actions", None)).response
                 = Msg("move_actions", Some(move_actions(game')))
            /\ \A request \in Requests :
                 request.cmd \in GatedCommands =>
                   respond(game', color, request).response.val = None]_vars

\* after White's end_turn Black holds the legal moves and White, asking in
\* its turn for its opponent's move results, is refused
C15_Witness ==
  /\ game.turn = BLACK
  /\ ~is_over(game)
  /\ Waiting(BLACK) = <<Msg("move_actions", Some(move_actions(game)))>>
  /\ Waiting(WHITE) = <<Msg("opponent_move_results", None)>>

(* ------------------------------------------------------------------ C16 *)
\* C16 as stated: when play_turn queries game.sense_actions() or
\* game.move_actions(), it has already queried game.opponent_move_results()
\* and delivered the result to handle_opponent_move_result.
C16_AsStated ==
  \A color \in Colors :
    \A query \in {"game.sense_actions", "game.move_actions"} :
      query \in Range(calls[color]) =>
        /\ Before(calls[color], "game.opponent_move_results", query)
        /\ Before(calls[color], "player.handle_opponent_move_result", query)

\* the first four calls of a play_turn
TurnOpening ==
  <<"game.sense_actions", "game.move_actions", "game.opponent_move_results",
    "player.handle_opponent_move_result">>

\* C16: play_turn first queries game.sense_actions() and
\* game.move_actions(), then queries game.opponent_move_results() and
\* delivers the result to handle_opponent_move_result, and only then asks
\* the player to choose_sense.
C16_NotifyAfterActionQueries ==
  \A color \in Colors :
    /\ IsPrefix(calls[color], TurnOpening) \/ IsPrefix(TurnOpening, calls[color])
    /\ "player.choose_sense" \in Range(calls[color]) =>
         Before(calls[color], "player.handle_opponent_move_result",
                "player.choose_sense")

\* play_local_game: Black has been told of White's capture, after its
\* actions were queried, and is about to be asked for its sense
C16_Witness ==
  /\ topology = "local"
  /\ calls[BLACK] = TurnOpening
  /\ opponent_move_results(game) # None
  /\ game.turn = BLACK

(* ------------------------------------------------------------------ C17 *)
\* the play_turn of the player of `color` makes a call in this step
CallMade(color) == Len(calls'[color]) = Len(calls[color]) + 1
LastCall(log) == log[Len(log)]
IsCallback(call) == ~IsGameCall(call)

\* no play_turn has been started yet
BeforeFirstTurn == \A color \in Colors : calls[color] = <<>> /\ turn_step[color] = 0

\* C17: under play_local_game the player passed to play_turn is the one of
\* color game.turn, White in the first iteration and in every later one the
\* color other than that of the iteration before; the turn is that
\* player's as long as its play_turn is under way; and every callback of a
\* play_turn (handle_opponent_move_result, choose_sense, handle_sense_result,
\* choose_move, handle_move_result) is made and returns with game.turn
\* equal to the color of the player called.
C17_LocalMoverOwnsTurn ==
  /\ [](topology = "local" /\ driver = "play_turn" => game.turn = mover)
  /\ [][topology = "local" =>
          \A color \in Colors :
            /\ PlayTurnStarts(color) =>
                 /\ color = game.turn
                 /\ mover' = color
                 /\ color = (IF BeforeFirstTurn THEN WHITE ELSE Other(mover))
            /\ (CallMade(color) /\ IsCallback(LastCall(calls'[color]))) =>
                 /\ color = mover
                 /\ game.turn = color
                 /\ game'.turn = color]_vars

\* play_local_game: after White's turn Black's handle_move_result has been
\* called and the turn is still Black's
C17_Witness ==
  /\ topology = "local"
  /\ driver = "play_turn"
  /\ mover = BLACK
  /\ Completed(WHITE)
  /\ calls[BLACK] # <<>>
  /\ LastCall(calls[BLACK]) = "player.handle_move_result"
  /\ game.turn = BLACK

(* ------------------------------------------------------------------ C18 *)
\* the winner and the reason of a (winner_color, win_reason, game_history)
Verdict(triple) == <<triple[1], triple[2]>>

\* C18: in the multiprocessing topology the result of a game that is over
\* never changes; every winner_color and win_reason request served once
\* the game is over is answered with the winner and the reason the game
\* holds; what a process passes to handle_game_end is that winner and
\* reason; when play_multiprocessing_local_game has returned, both
\* processes have made their one handle_game_end call with the winner and
\* reason returned; and, with the moderator and the processes running and
\* callbacks returning, a game that is over leads to both processes having
\* exited and the moderator having returned.
C18_ResultAgreement ==
  /\ [][is_over(game) => game'.result = game.result]_vars
  /\ [][\A color \in Colors :
          (Served(color) /\ is_over(game)) =>
            /\ ServedRequest(color).cmd = "winner_color" =>
                 Answer(color) = Msg("winner_color", Some(game.result[1].winner))
            /\ ServedRequest(color).cmd = "win_reason" =>
                 Answer(color) = Msg("win_reason", Some(game.result[1].reason))]_vars
  /\ [](topology = "multiprocessing" =>
          \A color \in Colors :
            /\ Len(handled[color].end) <= 1
            /\ handled[color].end # <<>> =>
                 /\ is_over(game)
                 /\ Verdict(handled[color].end[1]) =
                      <<get_winner_color(game), get_win_reason(game)>>
            /\ moderator.loop = "returned" =>
                 /\ outcome # None
                 /\ Len(handled[color].end) = 1
                 /\ Verdict(handled[color].end[1]) = Verdict(outcome[1]))
  /\ (topology = "multiprocessing" /\ is_over(game))
       ~> (moderator.loop = "returned" /\ \A color \in Colors : player[color] = "exited")

\* play_multiprocessing_local_game has returned White's win by king
\* capture, and both processes were told of it before they exited
C18_Witness ==
  /\ topology = "multiprocessing"
  /\ moderator.loop = "returned"
  /\ outcome # None
  /\ Verdict(outcome[1]) = <<Some(WHITE), Some("KING_CAPTURE")>>
  /\ \A color \in Colors :
       /\ player[color] = "exited"
       /\ Len(handled[color].end) = 1
       /\ Verdict(handled[color].end[1]) = Verdict(outcome[1])

(* ------------------------------------------------------------------ C19 *)
\* the name of the player class of a color
NameOf(color) == IF color = WHITE THEN WhiteName ELSE BlackName

\* C19: in every state, whoever is to move and whether or not the game is
\* over, a 'color' request of a color is answered with that color and an
\* 'opponent_name' request with the name of the other color's player
\* (White is told the black player's name, Black the white player's name),
\* and the game is left as it was; every such request served is so
\* answered; and a process calls handle_game_start with its own color and
\* its opponent's name.
C19_IdentityCommands ==
  /\ [](\A color \in Colors :
          /\ respond(game, color, Request("color", None)) =
               [game |-> game, response |-> Msg("color", Some(color))]
          /\ respond(game, color, Request("opponent_name", None)) =
               [game |-> game,
                response |-> Msg("opponent_name", Some(NameOf(Other(color))))]
          /\ (topology = "multiprocessing" /\ handled[color].start # <<>>) =>
               /\ handled[color].start[1][1] = color
               /\ handled[color].start[1][3] = NameOf(Other(color)))
  /\ [][\A color \in Colors :
          /\ (Served(color) /\ ServedRequest(color).cmd = "color") =>
               Answer(color) = Msg("color", Some(color))
          /\ (Served(color) /\ ServedRequest(color).cmd = "opponent_name") =>
               Answer(color) = Msg("opponent_name", Some(NameOf(Other(color))))]_vars
  /\ NameOf(WHITE) # NameOf(BLACK)

\* White has played its turn, and Black, now to move, holds the answer to
\* its opponent_name request: the white player's name
C19_Witness ==
  /\ game.turn = BLACK
  /\ Waiting(BLACK) = <<Msg("opponent_name", Some(WhiteName))>>
  /\ handled[WHITE].start = <<(<<WHITE, StartingBoard, BlackName>>)>>
  /\ gathered[BLACK][1] = Some(BLACK)

====
